---- MODULE Spec2Model ----
(***************************************************************************)
(* The query surface of acdcli/cache/query.py (QueryMixin): get_node,      *)
(* resolve and list_children over a fixed node store, with the two shared  *)
(* caches node_id_to_node_cache and path_to_node_id_cache guarded by       *)
(* node_cache_lock.                                                        *)
(*                                                                         *)
(* A path is the sequence of its pieces: "/" is one piece and a node name  *)
(* is one piece, so "/a/t" is <<"/", "a", "/", "t">> and "" is <<>>.       *)
(***************************************************************************)
EXTENDS Integers, Sequences, FiniteSets, TLC

VARIABLES
    nodes,                   \* the nodes relation: a set of rows
    parentage,               \* the parentage relation: a set of <<parent, child>>
    files,                   \* the files relation: a set of rows
    properties,              \* the properties relation: a set of rows
    content,                 \* the content relation: a set of rows
    scenario,                \* which store the callers work on
    node_id_to_node_cache,   \* id -> Node
    path_to_node_id_cache,   \* path -> id
    lockOwner,               \* the caller holding node_cache_lock, or NoCaller
    lockDepth,               \* how many times the owner has acquired it
    reentrant,               \* whether the owner may acquire node_cache_lock again
    stack,                   \* per caller: the frames of the call in progress
    queries,                 \* per caller: store queries issued by the call in progress
    last,                    \* per caller: the outcome of the call that returned last
    resolved                 \* history: the paths for which resolve has returned a Node

vars == <<nodes, parentage, files, properties, content, scenario,
          node_id_to_node_cache, path_to_node_id_cache,
          lockOwner, lockDepth, reentrant, stack, queries, last, resolved>>

store == <<nodes, parentage, files, properties, content, scenario>>
caches == <<node_id_to_node_cache, path_to_node_id_cache>>
lock == <<lockOwner, lockDepth>>

----------------------------------------------------------------------------
(* Bounds *)

\* the number of callers of the concurrent specification
NumCallers == 2

\* the deepest call stack explored: first_path and all_path recurse for ever
\* on a cycle
MaxDepth == 5

----------------------------------------------------------------------------
(* Node and the store *)

root_id == "R"

NoCaller == 0
NoId == "-"
\* Python's None where a Node is expected
NoNode == [id |-> NoId, type |-> "-", name |-> "", status |-> "-"]

Row(i, ty, n, s) == [id |-> i, type |-> ty, name |-> n, status |-> s]

Node(row) == [id |-> row.id, type |-> row.type, name |-> row.name, status |-> row.status]

is_available(n) == n.status = "AVAILABLE"
is_trashed(n) == n.status = "TRASH"
is_file(n) == n.type = "file"
is_folder(n) == n.type = "folder"

\* /a (folder) holds an available file f, a trashed file t whose name is
\* unique, and two trashed files both named x.
StoreNodes ==
    { Row("R", "folder", "", "AVAILABLE"),
      Row("A", "folder", "a", "AVAILABLE"),
      Row("F", "file", "f", "AVAILABLE"),
      Row("T", "file", "t", "TRASH"),
      Row("X1", "file", "x", "TRASH"),
      Row("X2", "file", "x", "TRASH") }

StoreParentage ==
    { <<"R", "A">>, <<"A", "F">>, <<"A", "T">>, <<"A", "X1">>, <<"A", "X2">> }

Ids == {"R", "A", "F", "T", "X1", "X2"}
Names == {"a", "f", "t", "x"}

FileRow(i, m, sz) == [id |-> i, md5 |-> m, size |-> sz]
PropertyRow(i, o, k, v) == [id |-> i, owner |-> o, key |-> k, value |-> v]
ContentRow(i, ver, v, acc) == [id |-> i, version |-> ver, value |-> v, accessed |-> acc]

StoreFiles ==
    { FileRow("F", "md5f", 3), FileRow("T", "md5t", 2),
      FileRow("X1", "md5x", 1), FileRow("X2", "md5x", 1) }

StoreProperties == { PropertyRow("F", "own", "k", "v") }

StoreContent == { ContentRow("F", 1, "bytes", 0) }

\* the store of the scenario "links": the file m lies in both /a and /b; /a
\* holds an available, a trashed and a purged file all named s; /b holds an
\* available Foo and a trashed foo; / holds an available foo.
LinkNodes ==
    { Row("R", "folder", "", "AVAILABLE"),
      Row("A", "folder", "a", "AVAILABLE"),
      Row("B", "folder", "b", "AVAILABLE"),
      Row("M", "file", "m", "AVAILABLE"),
      Row("S1", "file", "s", "AVAILABLE"),
      Row("S2", "file", "s", "TRASH"),
      Row("S3", "file", "s", "PURGED"),
      Row("G", "file", "Foo", "AVAILABLE"),
      Row("K", "file", "foo", "TRASH"),
      Row("H", "file", "foo", "AVAILABLE") }

LinkParentage ==
    { <<"R", "A">>, <<"R", "B">>, <<"R", "H">>,
      <<"A", "M">>, <<"B", "M">>,
      <<"A", "S1">>, <<"A", "S2">>, <<"A", "S3">>,
      <<"B", "G">>, <<"B", "K">> }

LinkFiles ==
    { FileRow("M", "md5m", 5), FileRow("S1", "md5s", 1), FileRow("S2", "md5s", 1),
      FileRow("S3", "md5s", 1), FileRow("G", "md5g", 2), FileRow("K", "md5g", 2),
      FileRow("H", "md5h", 4) }

LinkProperties == { PropertyRow("M", "own", "k", "v") }

LinkContent == { ContentRow("M", 1, "bytes", 0) }

\* the store of the scenario "bare": no row for root_id, and a file that no
\* parentage row names
BareNodes == { Row("O", "file", "o", "AVAILABLE") }

\* the store of the scenario "loop": the folders c and d are each other's
\* parent
LoopNodes ==
    { Row("R", "folder", "", "AVAILABLE"),
      Row("C", "folder", "c", "AVAILABLE"),
      Row("D", "folder", "d", "AVAILABLE") }

LoopParentage == { <<"C", "D">>, <<"D", "C">> }

\* a slip: the status strings in descending order
StatusRankDescending(s) == CASE s = "AVAILABLE" -> 2 [] s = "PURGED" -> 1 [] OTHER -> 0

\* the order of the status strings ('AVAILABLE' < 'PURGED' < 'TRASH')
StatusRank(s) == CASE s = "AVAILABLE" -> 0 [] s = "PURGED" -> 1 [] OTHER -> 2

\* the order of the name strings of the stores (upper case sorts first)
NameRank(n) ==
    CASE n = "" -> 0 [] n = "Foo" -> 1 [] n = "a" -> 2 [] n = "b" -> 3
      [] n = "c" -> 4 [] n = "d" -> 5 [] n = "f" -> 6 [] n = "foo" -> 7
      [] n = "m" -> 8 [] n = "o" -> 9 [] n = "s" -> 10 [] n = "t" -> 11
      [] OTHER -> 12

\* the order of the id strings of the stores
IdRank(i) ==
    CASE i = "A" -> 0 [] i = "B" -> 1 [] i = "C" -> 2 [] i = "D" -> 3
      [] i = "F" -> 4 [] i = "G" -> 5 [] i = "H" -> 6 [] i = "K" -> 7
      [] i = "M" -> 8 [] i = "O" -> 9 [] i = "R" -> 10 [] i = "S1" -> 11
      [] i = "S2" -> 12 [] i = "S3" -> 13 [] i = "T" -> 14 [] i = "X1" -> 15
      [] OTHER -> 16

\* str.lower() on the names the callers pass
lower(n) == IF n \in {"Foo", "FOO"} THEN "foo" ELSE n

\* a slip: the stored name is compared as it is
LOWERKeeps(n) == n

\* LOWER() on the names of the stores
LOWER(n) == IF n = "Foo" THEN "foo" ELSE n

\* the orders in which a query may return the rows S under ORDER BY rank:
\* rows of equal rank come in any order
Ordered(S, rank) ==
    { s \in [1..Cardinality(S) -> S] :
        /\ \A i, j \in 1..Cardinality(S) : i # j => s[i] # s[j]
        /\ \A i, j \in 1..Cardinality(S) : i < j => rank[s[i]] <= rank[s[j]] }

NODE_BY_ID_SQL(id) == { n \in nodes : n.id = id }

CHILD_OF_SQL(name, parent) ==
    Ordered({ n \in nodes : n.name = name /\ <<parent, n.id>> \in parentage },
            [n \in nodes |-> StatusRank(n.status)])

CHILDREN_SQL(parent) ==
    Ordered({ n \in nodes : <<parent, n.id>> \in parentage },
            [n \in nodes |-> NameRank(n.name)])

CONFLICTING_NODE_SQL(parent, lowered) ==
    Ordered({ n \in nodes : /\ <<parent, n.id>> \in parentage
                            /\ LOWER(n.name) = lowered
                            /\ n.status = "AVAILABLE" },
            [n \in nodes |-> NameRank(n.name)])

PARENTS_SQL(child) ==
    Ordered({ n \in nodes : <<n.id, child>> \in parentage },
            [n \in nodes |-> NameRank(n.name)])

\* ORDER BY n.status, n.id (there are fewer than 17 ids)
FIND_FIRST_PARENT_SQL(child) ==
    Ordered({ n \in nodes : <<n.id, child>> \in parentage },
            [n \in nodes |-> StatusRank(n.status) * 17 + IdRank(n.id)])

FIND_BY_MD5_SQL(md5) ==
    Ordered({ n \in nodes : \E f \in files : f.id = n.id /\ f.md5 = md5 },
            [n \in nodes |-> NameRank(n.name)])

NUM_NODES_SQL == Cardinality(nodes)
NUM_FILES_SQL == Cardinality(files)
NUM_FOLDERS_SQL == Cardinality({ n \in nodes : n.type = "folder" })

NUM_CHILDREN_SQL(folder) ==
    Cardinality({ n \in nodes : <<folder, n.id>> \in parentage /\ n.status = "AVAILABLE" })

NUM_PARENTS_SQL(child) ==
    Cardinality({ n \in nodes : <<n.id, child>> \in parentage /\ n.status = "AVAILABLE" })

\* SUM(size) over the rows S (NULL, here 0, when there is none)
RECURSIVE SumSize(_)
SumSize(S) ==
    IF S = {} THEN 0
    ELSE LET f == CHOOSE f \in S : TRUE IN f.size + SumSize(S \ {f})

USAGE_SQL == SumSize(files)

FILE_SIZE_EXISTS_SQL(size) ==
    Cardinality({ f \in files : /\ f.size = size
                                /\ \E n \in nodes : n.id = f.id /\ n.status = "AVAILABLE" })

PROPERTY_BY_ID_SQL(id, owner, key) ==
    { r \in properties : r.id = id /\ r.owner = owner /\ r.key = key }

CONTENT_BY_ID_SQL(id, version) ==
    { r \in content : r.id = id /\ r.version = version }

----------------------------------------------------------------------------
(* Paths *)

Sep == "/"

RECURSIVE rstrip(_)
rstrip(p) == IF p # <<>> /\ p[Len(p)] = Sep THEN rstrip(SubSeq(p, 1, Len(p) - 1)) ELSE p

\* the index just after the last "/", 0 if there is none (p.rfind('/') + 1)
AfterLastSep(p) ==
    LET S == { i \in 1..Len(p) : p[i] = Sep }
    IN IF S = {} THEN 0 ELSE CHOOSE i \in S : \A j \in S : j <= i

\* os.path.split: <<head, tail>>
split(p) ==
    LET i == AfterLastSep(p)
        head == SubSeq(p, 1, i)
        tail == SubSeq(p, i + 1, Len(p))
    IN <<IF head # <<>> /\ \E k \in 1..Len(head) : head[k] # Sep
         THEN rstrip(head) ELSE head,
         tail>>

\* a slip: the child is filed under the folder's own path
ChildPathDropsName(folder_path, name) == folder_path

\* folder_path + '/' + name
ChildPath(folder_path, name) ==
    folder_path \o <<Sep>> \o (IF name = "" THEN <<>> ELSE <<name>>)

\* a name as a piece of a path
Tok(n) == IF n = "" THEN <<>> ELSE <<n>>

\* os.path.join(a, b)
join(a, b) ==
    IF b # <<>> /\ b[1] = Sep THEN b
    ELSE IF a = <<>> \/ a[Len(a)] = Sep THEN a \o b
    ELSE a \o <<Sep>> \o b

\* Node.simple_name
simple_name(n) == IF is_file(n) THEN Tok(n.name) ELSE Tok(n.name) \o <<Sep>>

\* the path "/n1/n2/.../nk" of the names ns ("/" when there is none)
RECURSIVE AbsPath(_)
AbsPath(ns) ==
    IF ns = <<>> THEN <<Sep>>
    ELSE IF Len(ns) = 1 THEN <<Sep, ns[1]>>
    ELSE AbsPath(SubSeq(ns, 1, Len(ns) - 1)) \o <<Sep, ns[Len(ns)]>>

----------------------------------------------------------------------------
(* Callers, frames and node_cache_lock *)

Callers == DOMAIN stack

NoCache == [x \in {} |-> NoId]

\* a slip: the dict is replaced by one that holds the new entry alone
PutAlone(d, k, v) == [x \in {k} |-> v]

\* d[k] = v on a dict
Put(d, k, v) == [x \in DOMAIN d \cup {k} |-> IF x = k THEN v ELSE d[x]]

\* None where a string is returned
NoValue == "-"

\* a frame of a call. path is the path argument (path, folder_path or
\* path_suffix; none says that it was left out); arg is a name, owner or md5
\* argument; r is the Node a callee returned and got the paths a callee
\* returned; kids are the rows read, todo the rows still to visit, paths the
\* list built so far.
\* again: a resolve of the same path had returned a Node when this one began
\* cold: the path was not in the path cache when this resolve began
\* primed: see Begin
Frame(op, pc, id, path, trash) ==
    [op |-> op, pc |-> pc, id |-> id, path |-> path, trash |-> trash,
     r |-> NoNode, kids |-> <<>>,
     again |-> op = "resolve" /\ path \in resolved,
     cold |-> op = "resolve" /\ path \notin DOMAIN path_to_node_id_cache,
     primed |-> FALSE, none |-> FALSE, arg |-> "",
     todo |-> <<>>, paths |-> <<>>, got |-> <<>>]

\* what a call came to. res is the Node returned (NoNode for None), paths the
\* strings returned, count the number returned
NoOutcome ==
    [op |-> "-", id |-> NoId, path |-> <<>>, trash |-> FALSE, res |-> NoNode,
     kids |-> <<>>, queries |-> 0, raised |-> FALSE, again |-> FALSE,
     cold |-> FALSE, primed |-> FALSE, arg |-> "", paths |-> <<>>, count |-> 0,
     value |-> NoValue]

Outcome(f, v, q, exc) ==
    [op |-> f.op, id |-> f.id, path |-> f.path, trash |-> f.trash, res |-> v,
     kids |-> f.kids, queries |-> q, raised |-> exc, again |-> f.again,
     cold |-> f.cold, primed |-> f.primed, arg |-> f.arg, paths |-> <<>>,
     count |-> 0, value |-> NoValue]

Top(t) == stack[t][Len(stack[t])]
At(t, op, pc) == t \in Callers /\ stack[t] # <<>> /\ Top(t).op = op /\ Top(t).pc = pc
Idle(t) == t \in Callers /\ stack[t] = <<>>

SetTop(t, f) == stack' = [stack EXCEPT ![t] = [stack[t] EXCEPT ![Len(stack[t])] = f]]

\* the top frame moves to pc and calls callee
Call(t, pc, callee) ==
    stack' = [stack EXCEPT ![t] =
                Append([stack[t] EXCEPT ![Len(stack[t])].pc = pc], callee)]

\* the top frame returns v: to the frame below it, or to the caller of the
\* operation (q is the number of store queries the operation has issued)
Return(t, v, q) ==
    IF Len(stack[t]) = 1
    THEN /\ stack' = [stack EXCEPT ![t] = <<>>]
         /\ last' = [last EXCEPT ![t] = Outcome(Top(t), v, q, FALSE)]
         /\ resolved' = IF Top(t).op = "resolve" /\ v # NoNode
                         THEN resolved \cup {Top(t).path} ELSE resolved
    ELSE /\ stack' = [stack EXCEPT ![t] =
                        [SubSeq(stack[t], 1, Len(stack[t]) - 1)
                            EXCEPT ![Len(stack[t]) - 1].r = v]]
         /\ UNCHANGED <<last, resolved>>

\* the top frame returns the strings ps
ReturnPaths(t, ps) ==
    IF Len(stack[t]) = 1
    THEN /\ stack' = [stack EXCEPT ![t] = <<>>]
         /\ last' = [last EXCEPT ![t] =
                        [Outcome(Top(t), NoNode, queries[t], FALSE)
                            EXCEPT !.paths = ps]]
         /\ UNCHANGED resolved
    ELSE /\ stack' = [stack EXCEPT ![t] =
                        [SubSeq(stack[t], 1, Len(stack[t]) - 1)
                            EXCEPT ![Len(stack[t]) - 1].got = ps]]
         /\ UNCHANGED <<last, resolved>>

\* an exception that no frame catches ends the operation
Raise(t) ==
    /\ stack' = [stack EXCEPT ![t] = <<>>]
    /\ last' = [last EXCEPT ![t] = Outcome(stack[t][1], NoNode, queries[t], TRUE)]
    /\ UNCHANGED resolved

\* entering "with self.node_cache_lock": the lock is free, or the caller
\* owns it and the lock lets its owner in again. The lock object is made
\* where the caches are, outside this file; both kinds of lock are modelled
\* (reentrant is fixed by the initial state).
CanAcquire(t) == lockOwner = NoCaller \/ (lockOwner = t /\ reentrant)

Acquire(t) ==
    /\ CanAcquire(t)
    /\ lockOwner' = t
    /\ lockDepth' = lockDepth + 1

\* leaving the with block
Release(t) ==
    /\ lockDepth' = lockDepth - 1
    /\ lockOwner' = IF lockDepth = 1 THEN NoCaller ELSE lockOwner

----------------------------------------------------------------------------
(* get_node *)

GnAcquire(t) ==
    /\ At(t, "get_node", "gn_lock")
    /\ Acquire(t)
    /\ SetTop(t, [Top(t) EXCEPT !.pc = "gn_read"])
    /\ UNCHANGED <<store, caches, reentrant, queries, last, resolved>>

\* return self.node_id_to_node_cache[id], or the KeyError is swallowed
GnRead(t) ==
    /\ At(t, "get_node", "gn_read")
    /\ Release(t)
    /\ IF Top(t).id \in DOMAIN node_id_to_node_cache
       THEN Return(t, node_id_to_node_cache[Top(t).id], queries[t])
       ELSE SetTop(t, [Top(t) EXCEPT !.pc = "gn_query"]) /\ UNCHANGED <<last, resolved>>
    /\ UNCHANGED <<store, caches, reentrant, queries>>

\* whether get_node installs the node it has read
GnCaches(n) == is_available(n)

GnQuery(t) ==
    /\ At(t, "get_node", "gn_query")
    /\ queries' = [queries EXCEPT ![t] = @ + 1]
    /\ LET rows == NODE_BY_ID_SQL(Top(t).id)
       IN IF rows = {}
          THEN Return(t, NoNode, queries[t] + 1)
          ELSE LET n == Node(CHOOSE r \in rows : TRUE)
               IN IF GnCaches(n)
                  THEN SetTop(t, [Top(t) EXCEPT !.pc = "gn_lock2", !.r = n])
                       /\ UNCHANGED <<last, resolved>>
                  ELSE Return(t, n, queries[t] + 1)
    /\ UNCHANGED <<store, caches, lock, reentrant>>

GnAcquire2(t) ==
    /\ At(t, "get_node", "gn_lock2")
    /\ Acquire(t)
    /\ SetTop(t, [Top(t) EXCEPT !.pc = "gn_write"])
    /\ UNCHANGED <<store, caches, reentrant, queries, last, resolved>>

GnWrite(t) ==
    /\ At(t, "get_node", "gn_write")
    /\ node_id_to_node_cache' = Put(node_id_to_node_cache, Top(t).r.id, Top(t).r)
    /\ Release(t)
    /\ Return(t, Top(t).r, queries[t])
    /\ UNCHANGED <<store, path_to_node_id_cache, reentrant, queries>>

----------------------------------------------------------------------------
(* resolve *)

RsAcquire(t) ==
    /\ At(t, "resolve", "rs_lock")
    /\ Acquire(t)
    /\ SetTop(t, [Top(t) EXCEPT !.pc = "rs_read"])
    /\ UNCHANGED <<store, caches, reentrant, queries, last, resolved>>

\* return self.get_node(self.path_to_node_id_cache[path]) inside the with
\* block, or the KeyError is swallowed and the with block is left
RsRead(t) ==
    /\ At(t, "resolve", "rs_read")
    /\ IF Top(t).path \in DOMAIN path_to_node_id_cache
       THEN /\ Call(t, "rs_hit",
                    Frame("get_node", "gn_lock",
                          path_to_node_id_cache[Top(t).path], <<>>, FALSE))
            /\ UNCHANGED lock
       ELSE /\ SetTop(t, [Top(t) EXCEPT !.pc = "rs_split"])
            /\ Release(t)
    /\ UNCHANGED <<store, caches, reentrant, queries, last, resolved>>

\* get_node has returned into the with block: leave it and return
RsHit(t) ==
    /\ At(t, "resolve", "rs_hit")
    /\ Release(t)
    /\ Return(t, Top(t).r, queries[t])
    /\ UNCHANGED <<store, caches, reentrant, queries>>

\* a slip: trailing slashes are dropped before the name is taken
nameOfStripped(path) ==
    IF split(rstrip(path))[2] = <<>> THEN "" ELSE split(rstrip(path))[2][1]

\* parent_path, name = os.path.split(path)
parent_path(path) == split(path)[1]
name(path) == IF split(path)[2] = <<>> THEN "" ELSE split(path)[2][1]

\* if not name: r = self.get_root_node(); else parent = self.resolve(parent_path)
RsSplit(t) ==
    /\ At(t, "resolve", "rs_split")
    /\ IF name(Top(t).path) = ""
       THEN Call(t, "rs_root_lock", Frame("get_node", "gn_lock", root_id, <<>>, FALSE))
       ELSE Call(t, "rs_parent",
                 Frame("resolve", "rs_lock", NoId, parent_path(Top(t).path), Top(t).trash))
    /\ UNCHANGED <<store, caches, lock, reentrant, queries, last, resolved>>

RsRootAcquire(t) ==
    /\ At(t, "resolve", "rs_root_lock")
    /\ Acquire(t)
    /\ SetTop(t, [Top(t) EXCEPT !.pc = "rs_root_w1"])
    /\ UNCHANGED <<store, caches, reentrant, queries, last, resolved>>

\* self.node_id_to_node_cache[r.id] = r; r.id raises when r is None
RsRootWrite1(t) ==
    /\ At(t, "resolve", "rs_root_w1")
    /\ IF Top(t).r = NoNode
       THEN /\ Raise(t)
            /\ Release(t)
            /\ UNCHANGED node_id_to_node_cache
       ELSE /\ node_id_to_node_cache' =
                   Put(node_id_to_node_cache, Top(t).r.id, Top(t).r)
            /\ SetTop(t, [Top(t) EXCEPT !.pc = "rs_root_w2"])
            /\ UNCHANGED <<lock, last, resolved>>
    /\ UNCHANGED <<store, path_to_node_id_cache, reentrant, queries>>

\* self.path_to_node_id_cache[path] = r.id; return r
RsRootWrite2(t) ==
    /\ At(t, "resolve", "rs_root_w2")
    /\ path_to_node_id_cache' = Put(path_to_node_id_cache, Top(t).path, Top(t).r.id)
    /\ Release(t)
    /\ Return(t, Top(t).r, queries[t])
    /\ UNCHANGED <<store, node_id_to_node_cache, reentrant, queries>>

\* what resolve does with the rows of CHILD_OF_SQL: the Node it goes on to
\* install, or NoNode when it returns None
Disambiguate(rows, trash) ==
    IF Len(rows) = 0 THEN NoNode
    ELSE LET r == Node(rows[1])
             r2 == Len(rows) >= 2
         IN IF ~is_available(r) /\ (~trash \/ r2) THEN NoNode ELSE r

\* if not parent: return; then the CHILD_OF_SQL query and the choice among
\* its first two rows
RsQuery(t) ==
    /\ At(t, "resolve", "rs_parent")
    /\ IF Top(t).r = NoNode
       THEN /\ Return(t, NoNode, queries[t])
            /\ UNCHANGED queries
       ELSE /\ queries' = [queries EXCEPT ![t] = @ + 1]
            /\ \E rows \in CHILD_OF_SQL(name(Top(t).path), Top(t).r.id) :
                 LET r == Disambiguate(rows, Top(t).trash)
                 IN IF r = NoNode
                    THEN Return(t, NoNode, queries[t] + 1)
                    ELSE SetTop(t, [Top(t) EXCEPT !.pc = "rs_lock2", !.r = r])
                         /\ UNCHANGED <<last, resolved>>
    /\ UNCHANGED <<store, caches, lock, reentrant>>

\* a slip: the two entries are installed without the lock
RsAcquire2Skips(t) ==
    /\ At(t, "resolve", "rs_lock2")
    /\ SetTop(t, [Top(t) EXCEPT !.pc = "rs_w1"])
    /\ UNCHANGED <<store, caches, lock, reentrant, queries, last, resolved>>

RsAcquire2(t) ==
    /\ At(t, "resolve", "rs_lock2")
    /\ Acquire(t)
    /\ SetTop(t, [Top(t) EXCEPT !.pc = "rs_w1"])
    /\ UNCHANGED <<store, caches, reentrant, queries, last, resolved>>

\* a slip: the Node is not installed under the id map
RsWrite1Skips(t) ==
    /\ At(t, "resolve", "rs_w1")
    /\ SetTop(t, [Top(t) EXCEPT !.pc = "rs_w2"])
    /\ UNCHANGED <<store, caches, lock, reentrant, queries, last, resolved>>

\* self.node_id_to_node_cache[r.id] = r
RsWrite1(t) ==
    /\ At(t, "resolve", "rs_w1")
    /\ node_id_to_node_cache' = Put(node_id_to_node_cache, Top(t).r.id, Top(t).r)
    /\ SetTop(t, [Top(t) EXCEPT !.pc = "rs_w2"])
    /\ UNCHANGED <<store, path_to_node_id_cache, lock, reentrant, queries, last, resolved>>

\* self.path_to_node_id_cache[path] = r.id; return r
RsWrite2(t) ==
    /\ At(t, "resolve", "rs_w2")
    /\ path_to_node_id_cache' = Put(path_to_node_id_cache, Top(t).path, Top(t).r.id)
    /\ Release(t)
    /\ Return(t, Top(t).r, queries[t])
    /\ UNCHANGED <<store, node_id_to_node_cache, reentrant, queries>>

----------------------------------------------------------------------------
(* list_children *)

\* folders + files of the rows of CHILDREN_SQL
Listed(rows, trash) ==
    LET Shown(row) == is_available(Node(row)) \/ trash
        kept == SelectSeq(rows, Shown)
        shown == [i \in 1..Len(kept) |-> Node(kept[i])]
    IN SelectSeq(shown, is_folder) \o SelectSeq(shown, is_file)

LcQuery(t) ==
    /\ At(t, "list_children", "lc_query")
    /\ queries' = [queries EXCEPT ![t] = @ + 1]
    /\ \E rows \in CHILDREN_SQL(Top(t).id) :
         SetTop(t, [Top(t) EXCEPT !.pc = "lc_lock", !.kids = Listed(rows, Top(t).trash)])
    /\ UNCHANGED <<store, caches, lock, reentrant, last, resolved>>

LcAcquire(t) ==
    /\ At(t, "list_children", "lc_lock")
    /\ Acquire(t)
    /\ SetTop(t, [Top(t) EXCEPT !.pc = "lc_write"])
    /\ UNCHANGED <<store, caches, reentrant, queries, last, resolved>>

\* whether list_children installs child c under the id map
LcCachesId(c) == is_available(c)

\* whether list_children installs child c under the path map
LcCachesPath(c, folder_path) == folder_path # <<>>

\* the loop over folders + files, on the id map
RECURSIVE PrimeIds(_, _)
PrimeIds(cache, kids) ==
    IF kids = <<>> THEN cache
    ELSE PrimeIds(IF LcCachesId(Head(kids))
                  THEN Put(cache, Head(kids).id, Head(kids)) ELSE cache,
                  Tail(kids))

\* the loop over folders + files, on the path map
RECURSIVE PrimePaths(_, _, _)
PrimePaths(cache, kids, folder_path) ==
    IF kids = <<>> THEN cache
    ELSE PrimePaths(IF LcCachesPath(Head(kids), folder_path)
                    THEN Put(cache, ChildPath(folder_path, Head(kids).name), Head(kids).id)
                    ELSE cache,
                    Tail(kids), folder_path)

\* the with block: the whole loop runs with the lock held
LcWrite(t) ==
    /\ At(t, "list_children", "lc_write")
    /\ node_id_to_node_cache' = PrimeIds(node_id_to_node_cache, Top(t).kids)
    /\ path_to_node_id_cache' =
           PrimePaths(path_to_node_id_cache, Top(t).kids, Top(t).path)
    /\ Release(t)
    /\ Return(t, NoNode, queries[t])
    /\ UNCHANGED <<store, reentrant, queries>>

----------------------------------------------------------------------------
(* first_path and all_path *)

\* a call inside first_path or all_path goes no deeper than MaxDepth frames
DepthOk(t) == Len(stack[t]) < MaxDepth

\* a slip: the parents come in no particular order
FirstParentUnordered(child) ==
    Ordered({ n \in nodes : <<n.id, child>> \in parentage },
            [n \in nodes |-> 0])

\* the rows first_path reads
FirstParent(child) == FIND_FIRST_PARENT_SQL(child)

\* a slip: first_path goes on with the node it was called for
FpNextSame(node_id, node) == node_id

\* the id that first_path calls itself with
FpNext(node_id, node) == node.id

\* if node_id == self.root_id: return '/'; else the first parent is read:
\* Node(None) raises, the root's simple_name is returned, or first_path
\* calls itself on the parent
FpStart(t) ==
    /\ At(t, "first_path", "fp_start")
    /\ IF Top(t).id = root_id
       THEN /\ ReturnPaths(t, << <<Sep>> >>)
            /\ UNCHANGED queries
       ELSE /\ queries' = [queries EXCEPT ![t] = @ + 1]
            /\ \E rows \in FirstParent(Top(t).id) :
                 IF rows = <<>>
                 THEN Raise(t)
                 ELSE LET node == Node(rows[1])
                      IN IF node.id = root_id
                         THEN ReturnPaths(t, << simple_name(node) >>)
                         ELSE /\ DepthOk(t)
                              /\ stack' = [stack EXCEPT ![t] =
                                     Append([stack[t] EXCEPT
                                                ![Len(stack[t])].pc = "fp_ret",
                                                ![Len(stack[t])].r = node],
                                            Frame("first_path", "fp_start",
                                                  FpNext(Top(t).id, node),
                                                  <<>>, FALSE))]
                              /\ UNCHANGED <<last, resolved>>
    /\ UNCHANGED <<store, caches, lock, reentrant>>

\* return self.first_path(node.id) + node.name + '/'
FpReturn(t) ==
    /\ At(t, "first_path", "fp_ret")
    /\ ReturnPaths(t, << Top(t).got[1] \o Tok(Top(t).r.name) \o <<Sep>> >>)
    /\ UNCHANGED <<store, caches, lock, reentrant, queries>>

\* if node_id == self.root_id: return ["/" + path_suffix] (a TypeError when
\* path_suffix is None); else n = self.get_node(node_id)
ApStart(t) ==
    /\ At(t, "all_path", "ap_start")
    /\ IF Top(t).id = root_id
       THEN IF Top(t).none
            THEN Raise(t)
            ELSE ReturnPaths(t, << <<Sep>> \o Top(t).path >>)
       ELSE /\ DepthOk(t)
            /\ Call(t, "ap_node", Frame("get_node", "gn_lock", Top(t).id, <<>>, FALSE))
            /\ UNCHANGED <<last, resolved>>
    /\ UNCHANGED <<store, caches, lock, reentrant, queries>>

\* if not n: return []; path_suffix is extended and the parents are read
ApNode(t) ==
    /\ At(t, "all_path", "ap_node")
    /\ IF Top(t).r = NoNode
       THEN /\ ReturnPaths(t, <<>>)
            /\ UNCHANGED queries
       ELSE /\ queries' = [queries EXCEPT ![t] = @ + 1]
            /\ \E rows \in PARENTS_SQL(Top(t).r.id) :
                 SetTop(t, [Top(t) EXCEPT
                     !.pc = "ap_loop",
                     !.none = FALSE,
                     !.path = IF Top(t).path # <<>>
                              THEN join(Tok(Top(t).r.name), Top(t).path)
                              ELSE Tok(Top(t).r.name),
                     !.todo = [i \in 1..Len(rows) |-> Node(rows[i])],
                     !.paths = <<>>])
            /\ UNCHANGED <<last, resolved>>
    /\ UNCHANGED <<store, caches, lock, reentrant>>

\* whether all_path goes on through parent
ApFollows(parent) == is_available(parent)

\* while parent: ... parent = c.fetchone(); return ret
ApLoop(t) ==
    /\ At(t, "all_path", "ap_loop")
    /\ IF Top(t).todo = <<>>
       THEN ReturnPaths(t, Top(t).paths)
       ELSE IF ApFollows(Head(Top(t).todo))
            THEN /\ DepthOk(t)
                 /\ stack' = [stack EXCEPT ![t] =
                        Append([stack[t] EXCEPT
                                   ![Len(stack[t])].pc = "ap_ret",
                                   ![Len(stack[t])].todo = Tail(Top(t).todo)],
                               Frame("all_path", "ap_start",
                                     Head(Top(t).todo).id, Top(t).path, FALSE))]
                 /\ UNCHANGED <<last, resolved>>
            ELSE /\ SetTop(t, [Top(t) EXCEPT !.todo = Tail(Top(t).todo)])
                 /\ UNCHANGED <<last, resolved>>
    /\ UNCHANGED <<store, caches, lock, reentrant, queries>>

\* ret += self.all_path(parent.id, path_suffix)
ApReturn(t) ==
    /\ At(t, "all_path", "ap_ret")
    /\ SetTop(t, [Top(t) EXCEPT !.pc = "ap_loop", !.paths = Top(t).paths \o Top(t).got,
                                !.got = <<>>])
    /\ UNCHANGED <<store, caches, lock, reentrant, queries, last, resolved>>

----------------------------------------------------------------------------
(* The callers *)

\* the paths a caller resolves; with several callers, /a (and / beneath it)
ResolvePaths ==
    CASE scenario = "links" -> { AbsPath(<<"a", "m">>) }
      [] scenario = "names" -> { AbsPath(<<"a", "s">>), AbsPath(<<"b", "foo">>) }
      [] scenario = "slash" ->
           { AbsPath(<<>>), <<>>, AbsPath(<<"a">>) \o <<Sep>>, AbsPath(<<"a">>),
             AbsPath(<<"a", "m">>) }
      [] scenario = "bare" -> { AbsPath(<<>>), AbsPath(<<"o">>) }
      [] scenario = "loop" -> { AbsPath(<<>>), AbsPath(<<"c">>) }
      [] OTHER ->
           IF Cardinality(Callers) = 1
           THEN { AbsPath(<<>>), AbsPath(<<"a">>), AbsPath(<<"a", "f">>),
                  AbsPath(<<"a", "t">>), AbsPath(<<"a", "x">>),
                  AbsPath(<<"t">>), AbsPath(<<"a", "f", "x">>) }
           ELSE { AbsPath(<<"a">>) }

\* the ids a caller looks up ("Z" is no node of the store)
GetNodeIds ==
    CASE scenario = "links" -> {"M", "Z"}
      [] scenario = "names" -> {"S2"}
      [] scenario = "slash" -> {"R"}
      [] scenario = "bare" -> {"R", "O"}
      [] scenario = "loop" -> {"C"}
      [] OTHER -> IF Cardinality(Callers) = 1 THEN Ids \cup {"Z"} ELSE {"A"}

\* list_children(folder_id, trash, folder_path): the folder's own path or
\* none (None and '' are both false in "if folder_path")
ListInputs ==
    CASE scenario = "links" -> { <<"B", <<>>>> }
      [] scenario = "names" -> { <<"A", <<>>>> }
      [] scenario = "slash" -> { <<"R", AbsPath(<<>>)>>, <<"A", AbsPath(<<"a">>)>> }
      [] scenario = "bare" -> { <<"R", <<>>>> }
      [] scenario = "loop" -> { <<"C", <<>>>> }
      [] OTHER ->
           IF Cardinality(Callers) = 1
           THEN { <<"R", <<>>>>, <<"R", AbsPath(<<>>)>>,
                  <<"A", <<>>>>, <<"A", AbsPath(<<"a">>)>> }
           ELSE { <<"R", <<>>>> }

TrashModes ==
    CASE scenario \in {"links", "slash"} -> {FALSE}
      [] scenario = "main" /\ Cardinality(Callers) > 1 -> {FALSE}
      [] OTHER -> BOOLEAN

\* the paths that lead from the root to node id through available folders
RECURSIVE TruePaths(_)
TruePaths(id) ==
    IF id = root_id THEN { <<Sep>> }
    ELSE UNION { { (IF pp = <<Sep>> THEN <<>> ELSE pp) \o <<Sep, n.name>> :
                     pp \in TruePaths(e[1]) } :
                 e \in { e \in parentage :
                            /\ e[2] = id
                            /\ \E f \in nodes : f.id = e[1] /\ is_available(f) },
                 n \in { n \in nodes : n.id = id } }

\* the resolve that begins follows a list_children(folder_id, folder_path=P)
\* of the same caller, P a path of that folder, and names one of the
\* available children listed
Primed(t, f) ==
    /\ f.op = "resolve"
    /\ scenario # "loop"
    /\ last[t].op = "list_children"
    /\ last[t].path \in TruePaths(last[t].id)
    /\ \E i \in DOMAIN last[t].kids :
          /\ is_available(last[t].kids[i])
          /\ f.path \in TruePaths(last[t].kids[i].id)
          /\ f.path = (IF last[t].path = <<Sep>> THEN <<>> ELSE last[t].path)
                          \o <<Sep, last[t].kids[i].name>>

Begin(t, f) ==
    /\ Idle(t)
    /\ stack' = [stack EXCEPT ![t] = <<[f EXCEPT !.primed = Primed(t, f)]>>]
    /\ queries' = [queries EXCEPT ![t] = 0]
    /\ last' = [last EXCEPT ![t] = NoOutcome]
    /\ UNCHANGED <<store, caches, lock, reentrant, resolved>>

CallGetNode(t) ==
    \E id \in GetNodeIds : Begin(t, Frame("get_node", "gn_lock", id, <<>>, FALSE))

CallResolve(t) ==
    \E path \in ResolvePaths, trash \in TrashModes :
        Begin(t, Frame("resolve", "rs_lock", NoId, path, trash))

CallListChildren(t) ==
    \E inp \in ListInputs, trash \in TrashModes :
        Begin(t, Frame("list_children", "lc_query", inp[1], inp[2], trash))

\* resolve_id(path, trash)
ResolveIdPaths ==
    CASE scenario = "links" -> { AbsPath(<<"a", "m">>), AbsPath(<<"a", "zz">>) }
      [] scenario \in {"names", "slash"} -> {}
      [] OTHER -> { AbsPath(<<>>) }

CallResolveId(t) ==
    \E path \in ResolveIdPaths :
        Begin(t, Frame("resolve_id", "ri_call", NoId, path, FALSE))

\* first_path(node_id)
FirstPathIds ==
    CASE scenario = "links" -> {"M", "A", "R"}
      [] scenario = "bare" -> {"O"}
      [] scenario = "loop" -> {"C"}
      [] OTHER -> {}

CallFirstPath(t) ==
    \E id \in FirstPathIds :
        Begin(t, Frame("first_path", "fp_start", id, <<>>, FALSE))

\* all_path(node_id), path_suffix left out
AllPathIds ==
    CASE scenario = "links" -> {"M", "A", "R", "Z"}
      [] scenario = "bare" -> {"O"}
      [] scenario = "loop" -> {"C"}
      [] OTHER -> {}

CallAllPath(t) ==
    \E id \in AllPathIds :
        Begin(t, [Frame("all_path", "ap_start", id, <<>>, FALSE) EXCEPT !.none = TRUE])

\* get_child(folder_id, child_name)
ChildInputs ==
    CASE scenario = "names" ->
           { <<"A", "s">>, <<"A", "m">>, <<"B", "foo">>, <<"B", "Foo">>,
             <<"A", "zz">> }
      [] scenario = "bare" -> { <<"R", "o">> }
      [] scenario = "loop" -> { <<"C", "d">> }
      [] OTHER -> {}

\* get_conflicting_node(name, parent_id)
ConflictInputs ==
    CASE scenario = "names" ->
           { <<"foo", "B">>, <<"FOO", "B">>, <<"Foo", "R">>, <<"foo", "A">>,
             <<"s", "A">>, <<"m", "B">>, <<"b", "R">> }
      [] scenario = "bare" -> { <<"o", "R">> }
      [] scenario = "loop" -> { <<"d", "C">> }
      [] OTHER -> {}

\* get_property(node_id, owner_id, key)
PropertyInputs ==
    CASE scenario = "links" ->
           { <<"M", "own", "k">>, <<"M", "own", "j">>, <<"A", "own", "k">> }
      [] scenario = "bare" -> { <<"R", "own", "k">> }
      [] OTHER -> {}

\* get_content(node_id, version)
ContentInputs ==
    CASE scenario = "links" -> { <<"M", 1>>, <<"M", 0>>, <<"M", 2>>, <<"A", 1>> }
      [] scenario = "bare" -> { <<"R", 1>> }
      [] OTHER -> {}

\* a call that is one store query and touches no cache returns o
Answer(t, o) ==
    /\ Idle(t)
    /\ last' = [last EXCEPT ![t] = o]
    /\ UNCHANGED <<caches, lock, reentrant, stack, queries, resolved>>

\* the first row of the rows read, as a Node
fetchone(rows) == IF rows = <<>> THEN NoNode ELSE Node(rows[1])

GetChild(t) ==
    \E inp \in ChildInputs : \E rows \in CHILD_OF_SQL(inp[2], inp[1]) :
        /\ Answer(t, [NoOutcome EXCEPT
                        !.op = "get_child", !.id = inp[1], !.arg = inp[2],
                        !.queries = 1,
                        !.res = IF is_available(fetchone(rows))
                                THEN fetchone(rows) ELSE NoNode])
        /\ UNCHANGED store

GetConflictingNode(t) ==
    \E inp \in ConflictInputs :
    \E rows \in CONFLICTING_NODE_SQL(inp[2], lower(inp[1])) :
        /\ Answer(t, [NoOutcome EXCEPT
                        !.op = "get_conflicting_node", !.id = inp[2],
                        !.arg = inp[1], !.queries = 1, !.res = fetchone(rows)])
        /\ UNCHANGED store

GetProperty(t) ==
    \E inp \in PropertyInputs :
        /\ Answer(t, [NoOutcome EXCEPT
                        !.op = "get_property", !.id = inp[1], !.arg = inp[3],
                        !.queries = 1,
                        !.value =
                            LET rows == PROPERTY_BY_ID_SQL(inp[1], inp[2], inp[3])
                            IN IF rows = {} THEN NoValue
                               ELSE (CHOOSE r \in rows : TRUE).value])
        /\ UNCHANGED store

\* a slip: get_content stamps the rows it reads (CONTENT_ACCESSED_SQL)
GetContentStamps(rows, id, version) ==
    { IF r.id = id THEN [r EXCEPT !.accessed = 1] ELSE r : r \in rows }

\* the content relation after get_content(id, version): the one statement
\* executed is a SELECT
GetContentWrites(rows, id, version) == rows

GetContent(t) ==
    \E inp \in ContentInputs :
        /\ IF inp[2] = 0
           THEN /\ Answer(t, [NoOutcome EXCEPT
                                !.op = "get_content", !.id = inp[1]])
                /\ UNCHANGED content
           ELSE /\ Answer(t, [NoOutcome EXCEPT
                                !.op = "get_content", !.id = inp[1],
                                !.count = inp[2], !.queries = 1,
                                !.value =
                                    LET rows == CONTENT_BY_ID_SQL(inp[1], inp[2])
                                    IN IF rows = {} THEN NoValue
                                       ELSE (CHOOSE r \in rows : TRUE).value])
                /\ content' = GetContentWrites(content, inp[1], inp[2])
        /\ UNCHANGED <<nodes, parentage, files, properties, scenario>>

\* find_by_md5(md5)
Md5Inputs == IF scenario = "links" THEN {"md5m", "md5s", "none"} ELSE {}

FindByMd5(t) ==
    \E md5 \in Md5Inputs : \E rows \in FIND_BY_MD5_SQL(md5) :
        /\ Answer(t, [NoOutcome EXCEPT
                        !.op = "find_by_md5", !.arg = md5, !.queries = 1,
                        !.kids = [i \in 1..Len(rows) |-> Node(rows[i])]])
        /\ UNCHANGED store

\* whether the caller asks for the counts
CountsAsked == scenario = "links"

GetNodeCount(t) ==
    /\ CountsAsked
    /\ Answer(t, [NoOutcome EXCEPT
                    !.op = "get_node_count", !.queries = 1, !.count = NUM_NODES_SQL])
    /\ UNCHANGED store

GetFolderCount(t) ==
    /\ CountsAsked
    /\ Answer(t, [NoOutcome EXCEPT
                    !.op = "get_folder_count", !.queries = 1, !.count = NUM_FOLDERS_SQL])
    /\ UNCHANGED store

GetFileCount(t) ==
    /\ CountsAsked
    /\ Answer(t, [NoOutcome EXCEPT
                    !.op = "get_file_count", !.queries = 1, !.count = NUM_FILES_SQL])
    /\ UNCHANGED store

CalculateUsage(t) ==
    /\ CountsAsked
    /\ Answer(t, [NoOutcome EXCEPT
                    !.op = "calculate_usage", !.queries = 1, !.count = USAGE_SQL])
    /\ UNCHANGED store

\* num_children(folder_id) and num_parents(node_id)
CountIds == IF scenario = "links" THEN {"A", "M", "Z"} ELSE {}

NumChildren(t) ==
    \E id \in CountIds :
        /\ Answer(t, [NoOutcome EXCEPT
                        !.op = "num_children", !.id = id, !.queries = 1,
                        !.count = NUM_CHILDREN_SQL(id)])
        /\ UNCHANGED store

NumParents(t) ==
    \E id \in CountIds :
        /\ Answer(t, [NoOutcome EXCEPT
                        !.op = "num_parents", !.id = id, !.queries = 1,
                        !.count = NUM_PARENTS_SQL(id)])
        /\ UNCHANGED store

\* file_size_exists(size)
SizeInputs == IF scenario = "links" THEN {1, 9} ELSE {}

FileSizeExists(t) ==
    \E size \in SizeInputs :
        /\ Answer(t, [NoOutcome EXCEPT
                        !.op = "file_size_exists", !.count = size, !.queries = 1,
                        !.value = IF FILE_SIZE_EXISTS_SQL(size) # 0
                                  THEN "True" ELSE "False"])
        /\ UNCHANGED store

\* resolve_id: n = self.resolve(path, trash)
RiCall(t) ==
    /\ At(t, "resolve_id", "ri_call")
    /\ Call(t, "ri_ret", Frame("resolve", "rs_lock", NoId, Top(t).path, Top(t).trash))
    /\ UNCHANGED <<store, caches, lock, reentrant, queries, last, resolved>>

\* if n: return n.id
RiReturn(t) ==
    /\ At(t, "resolve_id", "ri_ret")
    /\ stack' = [stack EXCEPT ![t] = <<>>]
    /\ last' = [last EXCEPT ![t] =
                   [Outcome(Top(t), Top(t).r, queries[t], FALSE) EXCEPT
                       !.value = IF Top(t).r = NoNode THEN NoValue ELSE Top(t).r.id]]
    /\ UNCHANGED <<store, caches, lock, reentrant, queries, resolved>>

Step(t) ==
    \/ GnAcquire(t) \/ GnRead(t) \/ GnQuery(t) \/ GnAcquire2(t) \/ GnWrite(t)
    \/ RsAcquire(t) \/ RsRead(t) \/ RsHit(t) \/ RsSplit(t)
    \/ RsRootAcquire(t) \/ RsRootWrite1(t) \/ RsRootWrite2(t)
    \/ RsQuery(t) \/ RsAcquire2(t) \/ RsWrite1(t) \/ RsWrite2(t)
    \/ LcQuery(t) \/ LcAcquire(t) \/ LcWrite(t)

Next ==
    \E t \in 1..NumCallers :
        \/ CallGetNode(t) \/ CallResolve(t) \/ CallListChildren(t)
        \/ Step(t)

\* the steps of the operations that Step leaves out
StepAll(t) ==
    \/ Step(t)
    \/ RiCall(t) \/ RiReturn(t)
    \/ FpStart(t) \/ FpReturn(t)
    \/ ApStart(t) \/ ApNode(t) \/ ApLoop(t) \/ ApReturn(t)

\* every operation
NextAll ==
    \E t \in 1..NumCallers :
        \/ CallGetNode(t) \/ CallResolve(t) \/ CallListChildren(t)
        \/ CallResolveId(t) \/ CallFirstPath(t) \/ CallAllPath(t)
        \/ GetChild(t) \/ GetConflictingNode(t) \/ GetProperty(t) \/ GetContent(t)
        \/ FindByMd5(t) \/ FileSizeExists(t)
        \/ GetNodeCount(t) \/ GetFolderCount(t) \/ GetFileCount(t)
        \/ CalculateUsage(t) \/ NumChildren(t) \/ NumParents(t)
        \/ StepAll(t)

InitWith(n) ==
    /\ scenario = "main"
    /\ nodes = StoreNodes
    /\ parentage = StoreParentage
    /\ files = StoreFiles
    /\ properties = StoreProperties
    /\ content = StoreContent
    /\ node_id_to_node_cache = NoCache
    /\ path_to_node_id_cache = NoCache
    /\ lockOwner = NoCaller
    /\ lockDepth = 0
    /\ reentrant \in BOOLEAN
    /\ stack = [t \in 1..n |-> <<>>]
    /\ queries = [t \in 1..n |-> 0]
    /\ last = [t \in 1..n |-> NoOutcome]
    /\ resolved = {}

\* one caller, every input
Init == InitWith(1)

\* what the caller works on: the store of links, with calls about the file
\* of two folders ("links"), about names ("names") or about paths that end
\* in a slash and listings ("slash"); the store without a root row ("bare");
\* the store with a cycle ("loop")
Scenarios == {"links", "names", "slash", "bare", "loop"}

\* one caller on one of the other stores
InitStores ==
    /\ scenario \in Scenarios
    /\ nodes = (CASE scenario = "bare" -> BareNodes
                  [] scenario = "loop" -> LoopNodes
                  [] OTHER -> LinkNodes)
    /\ parentage = (CASE scenario = "bare" -> {}
                      [] scenario = "loop" -> LoopParentage
                      [] OTHER -> LinkParentage)
    /\ files = (CASE scenario = "bare" -> { FileRow("O", "md5o", 1) }
                  [] scenario = "loop" -> {}
                  [] OTHER -> LinkFiles)
    /\ properties = (IF scenario \in {"bare", "loop"} THEN {} ELSE LinkProperties)
    /\ content = (IF scenario \in {"bare", "loop"} THEN {} ELSE LinkContent)
    /\ node_id_to_node_cache = NoCache
    /\ path_to_node_id_cache = NoCache
    /\ lockOwner = NoCaller
    /\ lockDepth = 0
    /\ reentrant \in BOOLEAN
    /\ stack = [t \in 1..1 |-> <<>>]
    /\ queries = [t \in 1..1 |-> 0]
    /\ last = [t \in 1..1 |-> NoOutcome]
    /\ resolved = {}

\* NumCallers callers at once
InitConcurrent == InitWith(NumCallers)

Spec == Init /\ [][Next]_vars

SpecConcurrent == InitConcurrent /\ [][Next]_vars

SpecStores == InitStores /\ [][NextAll]_vars

\* a call in progress whose next step is possible takes it
SpecStoresFair ==
    InitStores /\ [][NextAll]_vars /\ \A t \in 1..NumCallers : WF_vars(StepAll(t))

\* a fair scheduler: a call in progress whose next step is possible again and
\* again takes it
SpecConcurrentFair ==
    InitConcurrent /\ [][Next]_vars /\ \A t \in 1..NumCallers : SF_vars(Step(t))

----------------------------------------------------------------------------
(* Properties *)

\* caller t has returned from resolve(path, trash) without an exception
Resolved(t, path, trash) ==
    /\ last[t].op = "resolve"
    /\ last[t].path = path
    /\ last[t].trash = trash
    /\ ~last[t].raised

PathT == AbsPath(<<"a", "t">>)
PathX == AbsPath(<<"a", "x">>)
PathF == AbsPath(<<"a", "f">>)
PathA == AbsPath(<<"a">>)
PathRoot == AbsPath(<<>>)

\* C1: resolve(P, include_trash=false) returns absent or an AVAILABLE node,
\* and for the trashed node T at /a/t, whose name is unique in /a,
\* resolve(/a/t, false) returns absent and resolve(/a/t, true) returns T.
C1_TrashVisibility ==
    \A t \in Callers :
        /\ (last[t].op = "resolve" /\ ~last[t].trash /\ ~last[t].raised)
              => (last[t].res = NoNode \/ is_available(last[t].res))
        /\ Resolved(t, PathT, FALSE) => last[t].res = NoNode
        /\ Resolved(t, PathT, TRUE) => last[t].res.id = "T"

\* C4: every Node in the id map is AVAILABLE.
C4_OnlyAvailableById ==
    \A id \in DOMAIN node_id_to_node_cache :
        is_available(node_id_to_node_cache[id])

\* C5: while nobody holds the lock, every id the path map points at is a key
\* of the id map, under which a Node with that id is stored.
C5_PathEntriesHaveNodes ==
    lockOwner = NoCaller =>
        \A p \in DOMAIN path_to_node_id_cache :
            /\ path_to_node_id_cache[p] \in DOMAIN node_id_to_node_cache
            /\ node_id_to_node_cache[path_to_node_id_cache[p]].id
                   = path_to_node_id_cache[p]

\* C6: with the two trashed files named x in /a, resolve(/a/x, true) returns
\* absent.
C6_AmbiguousTrashIsAbsent ==
    \A t \in Callers : Resolved(t, PathX, TRUE) => last[t].res = NoNode

AvailablePaths ==
    { pn \in { <<p, n.id>> : p \in ResolvePaths, n \in nodes } :
        /\ \E n \in nodes : n.id = pn[2] /\ is_available(n)
        /\ pn[1] \in TruePaths(pn[2]) }

\* C2: resolve(P) of the path P of an available node returns that node, and
\* a resolve(P) begun after a resolve(P) has returned a Node returns the same
\* id without a store query.
C2_RoundTrip ==
    \A t \in Callers : \A pn \in AvailablePaths :
        (last[t].op = "resolve" /\ last[t].path = pn[1]) =>
            /\ ~last[t].raised
            /\ last[t].res.id = pn[2]
            /\ last[t].again => last[t].queries = 0

C2_SecondResolveFromCache ==
    \E t \in Callers :
        /\ Resolved(t, PathF, FALSE)
        /\ last[t].again
        /\ last[t].res.id = "F"
        /\ last[t].queries = 0

\* caller t has installed the first of the two entries of a resolve, not yet
\* the second
Torn(t) == At(t, "resolve", "rs_w2") \/ At(t, "resolve", "rs_root_w2")

\* caller t is about to read one of the two maps
Reading(t) == At(t, "get_node", "gn_read") \/ At(t, "resolve", "rs_read")

\* C3: callers that resolve the same path at once all get a Node with the
\* same id, and nobody reads a map while a resolve has installed only the
\* first of its two entries.
C3_ConcurrentResolve ==
    /\ \A t, u \in Callers :
          (/\ last[t].op = "resolve" /\ last[u].op = "resolve"
           /\ last[t].path = last[u].path) =>
              /\ ~last[t].raised
              /\ last[t].res # NoNode
              /\ last[t].res.id = last[u].res.id
    /\ \A t, u \in Callers : ~(Torn(t) /\ Reading(u))

\* two callers have both missed the path map for /a and both have returned
C3_TwoCallersMissed ==
    \E t, u \in Callers :
        /\ t # u
        /\ Resolved(t, PathA, FALSE) /\ Resolved(u, PathA, FALSE)
        /\ ~last[t].again /\ ~last[u].again
        /\ last[t].queries > 0 /\ last[u].queries > 0
        /\ last[t].res.id = "A" /\ last[u].res.id = "A"

\* C7: resolve("/") returns the node whose id is root_id, in either trash
\* mode and whatever the caches hold.
C7_RootIdentity ==
    \A t \in Callers :
        (last[t].op = "resolve" /\ last[t].path = PathRoot) =>
            ~last[t].raised /\ last[t].res.id = root_id

C7_RootFromWarmCache ==
    \E t \in Callers :
        /\ Resolved(t, PathRoot, TRUE)
        /\ last[t].again
        /\ last[t].res.id = root_id
        /\ Cardinality(DOMAIN path_to_node_id_cache) > 1

\* C8: no step of a resolve called with include_trash=true changes the path
\* map.
C8_TrashResolveLeavesPathCache ==
    [][\A t \in Callers :
          (/\ stack[t] # <<>>
           /\ stack[t][1].op = "resolve"
           /\ stack[t][1].trash
           /\ stack'[t] # stack[t])
              => path_to_node_id_cache' = path_to_node_id_cache]_vars

\* caller t is about to run a store query
AtStoreQuery(t) ==
    \/ At(t, "get_node", "gn_query")
    \/ At(t, "list_children", "lc_query")
    \/ (At(t, "resolve", "rs_parent") /\ Top(t).r # NoNode)

\* C9: no caller runs a store query while it holds node_cache_lock.
C9_NoQueryUnderLock ==
    \A t \in Callers : AtStoreQuery(t) => lockOwner # t

C11_AbsenceNeverRaises ==
    \A t \in Callers :
        last[t].op \in {"resolve", "resolve_id", "get_node", "get_child",
                        "get_conflicting_node", "get_property", "get_content"}
            => ~last[t].raised

\* the elements of a sequence
Range(q) == { q[i] : i \in DOMAIN q }

\* caller t has returned from op(id) without an exception
Returned(t, op, id) ==
    last[t].op = op /\ last[t].id = id /\ ~last[t].raised

\* all_path(M) is the two paths /a/m and /b/m of the file M of two folders
AllPathOfTwoParents ==
    \A t \in Callers :
        (scenario = "links" /\ Returned(t, "all_path", "M")) =>
            /\ Len(last[t].paths) = 2
            /\ Range(last[t].paths) = TruePaths("M")
            /\ TruePaths("M") = { AbsPath(<<"a", "m">>), AbsPath(<<"b", "m">>) }

\* C12 as stated: all_path of a node with the two available parents A and B
\* is exactly the two paths from the root to the node, and first_path of it
\* is one of those two paths.
C12_TwoParentsBothPaths ==
    /\ AllPathOfTwoParents
    /\ \A t \in Callers :
        (scenario = "links" /\ Returned(t, "first_path", "M")) =>
            /\ Len(last[t].paths) = 1
            /\ last[t].paths[1] \in TruePaths("M")

\* C12 amended: all_path of a node with the two available parents A and B is
\* exactly the two paths from the root to the node; first_path of it is, on
\* every call, the path of the folder A that holds it, ending in a slash
\* ("/a/"), so that first_path followed by the node's name is one of the two
\* paths.
C12_TwoParentsFolderPath ==
    /\ AllPathOfTwoParents
    /\ \A t \in Callers :
        (scenario = "links" /\ Returned(t, "first_path", "M")) =>
            /\ last[t].paths = << AbsPath(<<"a">>) \o <<Sep>> >>
            /\ last[t].paths[1] \o <<"m">> \in TruePaths("M")

C12_FirstPathOfTwoParents ==
    \E t \in Callers :
        /\ scenario = "links"
        /\ Returned(t, "first_path", "M")
        /\ last[t].paths = << <<Sep, "a", Sep>> >>

\* C13: no operation changes the persistent store: nodes, parentage, files,
\* properties and content are the same after every step of resolve, get_node,
\* list_children, first_path, all_path, the searches, the counts,
\* get_property and get_content; only the two caches may change.
C13_StoreReadOnly ==
    [][/\ nodes' = nodes
       /\ parentage' = parentage
       /\ files' = files
       /\ properties' = properties
       /\ content' = content]_vars

C13_ReadAfterCaching ==
    \E t \in Callers :
        /\ last[t].op = "get_content"
        /\ last[t].value = "bytes"
        /\ path_to_node_id_cache # NoCache
        /\ node_id_to_node_cache # NoCache
        /\ content = LinkContent

\* C14: the caches only grow: after every step the keys of the id -> Node
\* map and of the path -> id map include the keys they had before the step.
C14_CachesOnlyGrow ==
    [][/\ DOMAIN node_id_to_node_cache \subseteq DOMAIN node_id_to_node_cache'
       /\ DOMAIN path_to_node_id_cache \subseteq DOMAIN path_to_node_id_cache']_vars

C14_SeveralEntries ==
    /\ Cardinality(DOMAIN node_id_to_node_cache) >= 3
    /\ Cardinality(DOMAIN path_to_node_id_cache) >= 3
    /\ \E t \in Callers : last[t].op = "list_children"

\* a and b are the same name but for the case of their letters
SameButCase(a, b) == a = b \/ {a, b} \subseteq {"foo", "Foo", "FOO"}

\* the available children of parent whose name is nm but for case
Conflicting(nm, parent) ==
    { n \in nodes : /\ <<parent, n.id>> \in parentage
                    /\ n.status = "AVAILABLE"
                    /\ SameButCase(n.name, nm) }

\* C15: get_conflicting_node(name, parent_id) returns an AVAILABLE child of
\* parent_id whose name equals name case-insensitively, and None exactly when
\* there is none; trashed and purged children and the children of other
\* parents are never returned.
C15_ConflictingNode ==
    \A t \in Callers :
        last[t].op = "get_conflicting_node" =>
            /\ ~last[t].raised
            /\ IF Conflicting(last[t].arg, last[t].id) = {}
               THEN last[t].res = NoNode
               ELSE \E n \in Conflicting(last[t].arg, last[t].id) :
                        last[t].res = Node(n)

C15_FooFoundByLowerCase ==
    \E t \in Callers :
        /\ last[t].op = "get_conflicting_node"
        /\ last[t].arg = "foo"
        /\ last[t].id = "B"
        /\ last[t].res.id = "G"
        /\ last[t].res.name = "Foo"

\* C16: a resolve of the path of an available child that follows a
\* list_children(folder_id, folder_path=P), P a path of the folder ("/" for
\* the root), returns that child and issues no store query.
C16_ListingPrimesResolve ==
    \A t \in Callers :
        (last[t].op = "resolve" /\ last[t].primed /\ ~last[t].raised) =>
            /\ last[t].res # NoNode
            /\ last[t].path \in TruePaths(last[t].res.id)
            /\ last[t].queries = 0

\* the available children of folder whose name is exactly nm
AvailableNamed(folder, nm) ==
    { n \in nodes : /\ <<folder, n.id>> \in parentage
                    /\ n.name = nm
                    /\ n.status = "AVAILABLE" }

\* the available nodes that path leads to from the root
AvailableAt(path) ==
    { n \in nodes : n.status = "AVAILABLE" /\ path \in TruePaths(n.id) }

\* C17: where a folder holds an AVAILABLE child of a name next to trashed or
\* purged children of that name, get_child and a resolve of the child's path
\* that began with the path not cached, in either trash mode, return an
\* AVAILABLE node of that name; get_child returns None exactly when the folder
\* holds no AVAILABLE child of that exact name.
C17_AvailableBeforeTrashed ==
    \A t \in Callers :
        /\ last[t].op = "get_child" =>
              /\ ~last[t].raised
              /\ IF AvailableNamed(last[t].id, last[t].arg) = {}
                 THEN last[t].res = NoNode
                 ELSE \E n \in AvailableNamed(last[t].id, last[t].arg) :
                          last[t].res = Node(n)
        /\ (/\ scenario = "names"
            /\ last[t].op = "resolve"
            /\ last[t].cold
            /\ ~last[t].raised
            /\ AvailableAt(last[t].path) # {}) =>
              \E n \in AvailableAt(last[t].path) : last[t].res = Node(n)

C17_ColdTrashResolveOfS ==
    \E t \in Callers :
        /\ last[t].op = "resolve"
        /\ last[t].cold
        /\ last[t].trash
        /\ last[t].path = <<Sep, "a", Sep, "s">>
        /\ last[t].res.id = "S1"
        /\ Cardinality({ n \in nodes : <<"A", n.id>> \in parentage /\ n.name = "s" }) = 3

\* the last segment of path is empty: path is empty or ends in a slash
EndsInSlash(path) == path = <<>> \/ path[Len(path)] = Sep

\* C18: a resolve of a path whose last segment is empty ("/", "", "/a/") and
\* that is not in the path cache returns the root node, records that very
\* path -> root_id and root_id -> root node in the caches, and resolves no
\* prefix of the path: the only call it makes is get_node(root_id).
C18_TrailingSlashIsRoot ==
    \A t \in Callers :
        /\ (/\ last[t].op = "resolve"
            /\ last[t].cold
            /\ ~last[t].raised
            /\ EndsInSlash(last[t].path)) =>
              /\ last[t].res.id = root_id
              /\ last[t].res \in { Node(n) : n \in nodes }
              /\ last[t].path \in DOMAIN path_to_node_id_cache
              /\ path_to_node_id_cache[last[t].path] = root_id
              /\ root_id \in DOMAIN node_id_to_node_cache
              /\ node_id_to_node_cache[root_id] = last[t].res
              /\ last[t].queries <= 1
        /\ (/\ stack[t] # <<>>
            /\ stack[t][1].op = "resolve"
            /\ stack[t][1].cold
            /\ EndsInSlash(stack[t][1].path)) =>
              /\ stack[t][1].pc \in {"rs_lock", "rs_read", "rs_split",
                                     "rs_root_lock", "rs_root_w1", "rs_root_w2"}
              /\ \A i \in 2..Len(stack[t]) :
                    stack[t][i].op = "get_node" /\ stack[t][i].id = root_id

C18_SlashAfterNameIsRoot ==
    \E t \in Callers :
        /\ last[t].op = "resolve"
        /\ last[t].cold
        /\ last[t].path = <<Sep, "a", Sep>>
        /\ last[t].res.id = root_id
        /\ <<Sep, "a", Sep>> \in DOMAIN path_to_node_id_cache
        /\ path_to_node_id_cache[<<Sep, "a", Sep>>] = root_id

\* no node of the store is its own ancestor
Acyclic ==
    LET Up(S) == S \cup { e[1] : e \in { e \in parentage : e[2] \in S } }
        Ancestors(id) == Up(Up(Up(Up({ e[1] : e \in { e \in parentage : e[2] = id } }))))
    IN \A n \in nodes : n.id \notin Ancestors(n.id)

WellFormed == Acyclic /\ \E n \in nodes : n.id = root_id

\* caller t is at the entry of a with block and may not enter
WaitsForLock(t) ==
    /\ stack[t] # <<>>
    /\ Top(t).pc \in {"gn_lock", "gn_lock2", "rs_lock", "rs_root_lock", "rs_lock2"}
    /\ ~CanAcquire(t)

\* C19: on a well-formed store (no cycle, a root row) every call of all_path
\* and of first_path ends, and on every store every call of resolve ends;
\* all_path and first_path go on for ever only where parentage has a cycle.
\* (A call that waits for node_cache_lock is the subject of C10.)
C19_RecursionEnds ==
    (/\ stack[1] # <<>>
     /\ stack[1][1].op \in {"resolve", "first_path", "all_path"}
     /\ stack[1][1].op = "resolve" \/ WellFormed)
        ~> (stack[1] = <<>> \/ WaitsForLock(1))

C19_ThreeDeepOnLinks ==
    /\ WellFormed
    /\ scenario = "links"
    /\ Len(stack[1]) = 3
    /\ \A i \in 1..3 : stack[1][i].op = "all_path"
    /\ stack[1][3].id = root_id

====
